---- MODULE Spec2Model ----
(***************************************************************************)
(* The disk-configuration front end of distinst (src/src/main.rs):         *)
(* the token parsers parse_fs, parse_sector and parse_flags, the operation *)
(* parsers configure_tables .. configure_lvm, and the pipeline             *)
(* configure_disks that runs them in a fixed order on a Disks topology.    *)
(*                                                                         *)
(* Tokens are TLA+ strings; Len, SubSeq and \o act on them as the Rust     *)
(* str methods len, slicing and concatenation do.  64-bit integers are     *)
(* kept as sign and magnitude, the magnitude a little-endian sequence of   *)
(* base-256 limbs, so that i64 overflow is computed and not assumed away.  *)
(***************************************************************************)
EXTENDS Integers, Sequences, FiniteSets, TLC

VARIABLES
    pc,        \* position of configure_disks / of the parser under test
    args,      \* the argument groups of the run (ArgMatches)
    idx,       \* number of tokens of the current group already consumed
    disks,     \* Disks: the physical disks registered so far
    vgs,       \* Disks: the logical (volume group) devices
    err,       \* the failure that ended the run, "" when none
    applied,   \* history: the <<stage, index>> of every token processed
    overflow_checks, \* whether the build panics on integer overflow (else it wraps)
    input,     \* parser under test: the token given
    output     \* parser under test: what it returned

vars == <<pc, args, idx, disks, vgs, err, applied, overflow_checks, input, output>>

None == [none |-> TRUE]

Some(v) == [some |-> v]

IsSome(o) == o # None

-----------------------------------------------------------------------------
(* str helpers *)

Char(s, i) == SubSeq(s, i, i)

StartsWith(s, p) == Len(s) >= Len(p) /\ SubSeq(s, 1, Len(p)) = p

EndsWith(s, p) == Len(s) >= Len(p) /\ SubSeq(s, Len(s) - Len(p) + 1, Len(s)) = p

\* &s[n..]
From(s, n) == SubSeq(s, n + 1, Len(s))

\* position of the first occurrence of the one-character pattern d, 0 if none
Find(s, d) ==
    LET hits == {i \in 1..Len(s) : Char(s, i) = d}
    IN  IF hits = {} THEN 0 ELSE CHOOSE i \in hits : \A j \in hits : i <= j

\* str::split: always yields at least one item; "" yields <<"">>
RECURSIVE Split(_, _)
Split(s, d) ==
    LET i == Find(s, d)
    IN  IF i = 0 THEN <<s>>
        ELSE <<SubSeq(s, 1, i - 1)>> \o Split(From(s, i), d)

\* Iterator::next on a Split: the first item, None when exhausted
Next1(fields) == IF fields = <<>> THEN None ELSE Some(Head(fields))

Digits == <<"0", "1", "2", "3", "4", "5", "6", "7", "8", "9">>

IsDigit(c) == \E d \in 1..10 : Digits[d] = c

DigitVal(c) == (CHOOSE d \in 1..10 : Digits[d] = c) - 1

AllDigits(s) == Len(s) > 0 /\ \A i \in 1..Len(s) : IsDigit(Char(s, i))

-----------------------------------------------------------------------------
(* Unbounded naturals as little-endian base-256 limbs, <<>> being zero *)

RECURSIVE Norm(_)
Norm(a) ==
    IF a = <<>> THEN <<>>
    ELSE IF a[Len(a)] = 0 THEN Norm(SubSeq(a, 1, Len(a) - 1))
    ELSE a

\* a * m + carry
RECURSIVE MulAdd(_, _, _)
MulAdd(a, m, carry) ==
    IF a = <<>>
    THEN IF carry = 0 THEN <<>>
         ELSE <<carry % 256>> \o MulAdd(<<>>, m, carry \div 256)
    ELSE LET t == Head(a) * m + carry
         IN  <<t % 256>> \o MulAdd(Tail(a), m, t \div 256)

\* quotient and remainder of a by the small divisor d
RECURSIVE DivRem(_, _)
DivRem(a, d) ==
    IF a = <<>> THEN [q |-> <<>>, r |-> 0]
    ELSE LET hi  == DivRem(Tail(a), d)
             cur == hi.r * 256 + Head(a)
         IN  [q |-> <<cur \div d>> \o hi.q, r |-> cur % d]

\* -1, 0, 1 as a < b, a = b, a > b, for normalised a and b
RECURSIVE Cmp(_, _)
Cmp(a, b) ==
    IF Len(a) # Len(b) THEN (IF Len(a) < Len(b) THEN -1 ELSE 1)
    ELSE IF a = <<>> THEN 0
    ELSE IF a[Len(a)] # b[Len(b)] THEN (IF a[Len(a)] < b[Len(b)] THEN -1 ELSE 1)
    ELSE Cmp(SubSeq(a, 1, Len(a) - 1), SubSeq(b, 1, Len(b) - 1))

\* the decimal digits of a string as a natural
RECURSIVE DecToNat(_)
DecToNat(s) ==
    IF s = "" THEN <<>>
    ELSE Norm(MulAdd(DecToNat(SubSeq(s, 1, Len(s) - 1)), 10, DigitVal(Char(s, Len(s)))))

RECURSIVE NatToDecRec(_)
NatToDecRec(a) ==
    IF a = <<>> THEN ""
    ELSE LET dr == DivRem(a, 10)
         IN  NatToDecRec(Norm(dr.q)) \o Digits[dr.r + 1]

\* Display of an unsigned integer
NatToDec(a) == IF a = <<>> THEN "0" ELSE NatToDecRec(a)

\* the value of a natural that fits a model integer
RECURSIVE NatToInt(_)
NatToInt(a) == IF a = <<>> THEN 0 ELSE Head(a) + 256 * NatToInt(Tail(a))

\* 2^63, 2^32 and 2^31
Two63 == <<0, 0, 0, 0, 0, 0, 0, 128>>

Two32 == <<0, 0, 0, 0, 1>>

Two31 == <<0, 0, 0, 128>>

\* the low n limbs of a, padded with zeros
Low(a, n) == [i \in 1..n |-> IF i <= Len(a) THEN a[i] ELSE 0]

\* (2^(8n) - a) mod 2^(8n): two's complement negation in n limbs
TwosComplement(a, n) ==
    Low(MulAdd([i \in 1..n |-> 255 - Low(a, n)[i]], 1, 1), n)

\* the i64 whose bit pattern is the low 64 bits of the integer (neg, mag)
WrapI64(neg, mag) ==
    LET bits == IF neg THEN TwosComplement(mag, 8) ELSE Low(mag, 8)
    IN  IF bits[8] >= 128
        THEN [neg |-> TRUE, mag |-> Norm(TwosComplement(bits, 8))]
        ELSE [neg |-> FALSE, mag |-> Norm(bits)]

\* whether the integer (neg, mag) is a value of i64
FitsI64(neg, mag) ==
    IF neg THEN Cmp(mag, Two63) <= 0 ELSE Cmp(mag, Two63) < 0

\* Display of a signed integer
IntToDec(x) == (IF x.neg THEN "-" ELSE "") \o NatToDec(x.mag)

\* str::parse::<i64>: an optional sign, then digits, within range
ParseI64(s) ==
    LET neg  == StartsWith(s, "-")
        body == IF neg \/ StartsWith(s, "+") THEN From(s, 1) ELSE s
        mag  == DecToNat(body)
    IN  IF ~AllDigits(body) THEN None
        ELSE IF ~FitsI64(neg, mag) THEN None
        ELSE Some([neg |-> neg /\ mag # <<>>, mag |-> mag])

\* str::parse::<u32>: an optional plus sign, then digits, below 2^32
ParseU32(s) ==
    LET body == IF StartsWith(s, "+") THEN From(s, 1) ELSE s
        mag  == DecToNat(body)
    IN  IF ~AllDigits(body) THEN None
        ELSE IF Cmp(mag, Two32) >= 0 THEN None
        ELSE Some(mag)

\* `id as i32` of a u32
AsI32(mag) ==
    IF Cmp(mag, Two31) < 0 THEN NatToInt(mag)
    ELSE (0 - 1) - NatToInt(Norm([i \in 1..4 |-> 255 - Low(mag, 4)[i]]))

-----------------------------------------------------------------------------
(* Results: Ok(v) or Err(e), e naming the failure of the error taxonomy    *)
(* that the message printed before exit(1) stands for.                     *)

Ok(v) == [ok |-> TRUE, val |-> v]

Err(e) == [ok |-> FALSE, err |-> e]

-----------------------------------------------------------------------------
(* parse_sector *)

\* Sector::from_str of the library: the generic sector parser
SectorFromStr(s) ==
    IF s = "start" THEN Some([kind |-> "Start", n |-> ""])
    ELSE IF s = "end" THEN Some([kind |-> "End", n |-> ""])
    ELSE IF EndsWith(s, "%") /\ AllDigits(SubSeq(s, 1, Len(s) - 1))
        THEN Some([kind |-> "Percent", n |-> SubSeq(s, 1, Len(s) - 1)])
    ELSE IF EndsWith(s, "M") /\ StartsWith(s, "-") /\ AllDigits(SubSeq(s, 2, Len(s) - 1))
        THEN Some([kind |-> "MegabyteFromEnd", n |-> SubSeq(s, 2, Len(s) - 1)])
    ELSE IF EndsWith(s, "M") /\ AllDigits(SubSeq(s, 1, Len(s) - 1))
        THEN Some([kind |-> "Megabyte", n |-> SubSeq(s, 1, Len(s) - 1)])
    ELSE IF StartsWith(s, "-") /\ AllDigits(From(s, 1))
        THEN Some([kind |-> "UnitFromEnd", n |-> From(s, 1)])
    ELSE IF AllDigits(s) THEN Some([kind |-> "Unit", n |-> s])
    ELSE None

\* (mebibytes * 1_048_576) / 1_000_000 in i64.  The product overflows i64
\* for large |mebibytes|: a build with overflow checks panics there, a
\* build without them keeps the low 64 bits.  The division truncates.
MebibytesToMegabytes(mebibytes, checked) ==
    LET exact   == MulAdd(mebibytes.mag, 1048576, 0)
        product == IF FitsI64(mebibytes.neg, exact)
                   THEN [neg |-> mebibytes.neg, mag |-> Norm(exact)]
                   ELSE WrapI64(mebibytes.neg, exact)
        q       == Norm(DivRem(product.mag, 1000000).q)
    IN  IF ~FitsI64(mebibytes.neg, exact) /\ checked THEN None
        ELSE Some([neg |-> product.neg /\ q # <<>>, mag |-> q])

\* the token parse_sector hands to the generic parser: Ok(token), or
\* Err("InvalidSector") when the mebibyte count does not parse, or
\* Err("Panic") when the multiplication panics
SectorToken(sector, checked) ==
    IF EndsWith(sector, "MiB")
    THEN LET n == ParseI64(SubSeq(sector, 1, Len(sector) - 3))
         IN  IF ~IsSome(n) THEN Err("InvalidSector")
             ELSE LET m == MebibytesToMegabytes(n.some, checked)
                  IN  IF ~IsSome(m) THEN Err("Panic")
                      ELSE Ok(IntToDec(m.some) \o "M")
    ELSE Ok(sector)

parse_sector(sector, checked) ==
    LET tok == SectorToken(sector, checked)
    IN  IF ~tok.ok THEN tok
        ELSE LET r == SectorFromStr(tok.val)
             IN  IF IsSome(r) THEN Ok(r.some) ELSE Err("InvalidSector")

-----------------------------------------------------------------------------
(* parse_flags *)

\* the arms of the match: <<token, flag>>
FlagTable ==
    {<<"esp", "PED_PARTITION_ESP">>, <<"boot", "PED_PARTITION_BOOT">>,
     <<"root", "PED_PARTITION_ROOT">>, <<"swap", "PED_PARTITION_SWAP">>,
     <<"hidden", "PED_PARTITION_HIDDEN">>, <<"raid", "PED_PARTITION_RAID">>,
     <<"lvm", "PED_PARTITION_LVM">>, <<"lba", "PED_PARTITION_LBA">>,
     <<"hpservice", "PED_PARTITION_HPSERVICE">>, <<"palo", "PED_PARTITION_PALO">>,
     <<"prep", "PED_PARTITION_PREP">>,
     <<"msft_reserved", "PED_PARTITION_MSFT_RESERVED">>,
     <<"apple_tv_recovery", "PED_PARTITION_APPLE_TV_RECOVERY">>,
     <<"diag", "PED_PARTITION_DIAG">>,
     <<"legacy_boot", "PED_PARTITION_LEGACY_BOOT">>,
     <<"msft_data", "PED_PARTITION_MSFT_DATA">>, <<"irst", "PED_PARTITION_IRST">>}

\* a match whose esp arm yields the flag of the boot arm
FlagOfEspAsBoot(flag) ==
    IF flag = "esp" THEN Some("PED_PARTITION_BOOT")
    ELSE IF \E e \in FlagTable : e[1] = flag
    THEN Some((CHOOSE e \in FlagTable : e[1] = flag)[2])
    ELSE None

\* the match on one token: the flag of its arm, None for the `_` arm
FlagOf(flag) ==
    IF \E e \in FlagTable : e[1] = flag
    THEN Some((CHOOSE e \in FlagTable : e[1] = flag)[2])
    ELSE None

RECURSIVE FilterMapFlags(_)
FilterMapFlags(tokens) ==
    IF tokens = <<>> THEN <<>>
    ELSE LET f == FlagOf(Head(tokens))
         IN  (IF IsSome(f) THEN <<f.some>> ELSE <<>>) \o FilterMapFlags(Tail(tokens))

parse_flags(flags) == FilterMapFlags(Split(flags, ","))

-----------------------------------------------------------------------------
(* parse_fs *)

\* FileSystemType::from_str of the library: the generic filesystem parser
FileSystemNames ==
    {"btrfs", "exfat", "ext2", "ext3", "ext4", "f2fs", "fat16", "fat32", "ntfs",
     "swap", "xfs", "lvm"}

FileSystemFromStr(fs) == IF fs \in FileSystemNames THEN Some(fs) ELSE None

\* LvmEncryption::new
LvmEncryption(physical_volume, password, keydata) ==
    [physical_volume |-> physical_volume, password |-> password, keydata |-> keydata]

\* the loop over the fields after the two names of an enc= token
RECURSIVE EncFields(_, _, _)
EncFields(fields, pass, keydata) ==
    IF fields = <<>> THEN Ok([pass |-> pass, keydata |-> keydata])
    ELSE LET field == Head(fields)
         IN  IF StartsWith(field, "pass=")
             THEN IF From(field, 5) = "" THEN Err("EmptyCredential")
                  ELSE EncFields(Tail(fields), Some(From(field, 5)), keydata)
             ELSE IF StartsWith(field, "keyfile=")
             THEN IF From(field, 8) = "" THEN Err("EmptyCredential")
                  ELSE EncFields(Tail(fields), pass, Some(From(field, 8)))
             ELSE Err("InvalidField")

\* the descriptor built whenever a passphrase is missing or a keyfile is
EncryptionOfEither(physical_volume, pass, keydata) ==
    IF ~IsSome(pass) /\ IsSome(keydata) THEN None
    ELSE Some(LvmEncryption(physical_volume, pass, keydata))

\* the second component of PartType::Lvm built from an enc= token
EncryptionOf(physical_volume, pass, keydata) ==
    IF ~IsSome(pass) /\ ~IsSome(keydata) THEN None
    ELSE Some(LvmEncryption(physical_volume, pass, keydata))

PartTypeFs(fs) == [tag |-> "Fs", fs |-> fs]

PartTypeLvm(volume_group, encryption) ==
    [tag |-> "Lvm", volume_group |-> volume_group, encryption |-> encryption]

parse_fs(fs) ==
    IF StartsWith(fs, "enc=")
    THEN LET fields == Split(From(fs, 4), ",")
             pv     == Next1(fields)
             rest1  == IF fields = <<>> THEN <<>> ELSE Tail(fields)
             vg     == Next1(rest1)
             rest2  == IF rest1 = <<>> THEN <<>> ELSE Tail(rest1)
         IN  IF ~IsSome(pv) THEN Err("MissingPhysicalVolume")
             ELSE IF ~IsSome(vg) THEN Err("MissingVolumeGroup")
             ELSE LET cred == EncFields(rest2, None, None)
                  IN  IF ~cred.ok THEN cred
                      ELSE Ok(PartTypeLvm(vg.some,
                               EncryptionOf(pv.some, cred.val.pass, cred.val.keydata)))
    ELSE IF StartsWith(fs, "lvm=")
    THEN LET vg == Next1(Split(From(fs, 4), ","))
         IN  IF ~IsSome(vg) THEN Err("MissingVolumeGroup")
             ELSE Ok(PartTypeLvm(vg.some, None))
    ELSE LET r == FileSystemFromStr(fs)
         IN  IF IsSome(r) THEN Ok(PartTypeFs(r.some)) ELSE Err("InvalidFilesystem")

-----------------------------------------------------------------------------
(* The topology: Disks, Disk, PartitionInfo and PartitionBuilder of the    *)
(* library, as far as the operation parsers use them.                      *)

\* PartitionInfo as probed from a disk
ExistingPartition(number, start, end, fs) ==
    [number |-> number, start_sector |-> start, end_sector |-> end,
     part_type |-> "primary", filesystem |-> Some(fs), format |-> FALSE,
     target |-> None, key_id |-> None, flags |-> <<>>, volume_group |-> None,
     name |-> None, remove |-> FALSE]

\* the block devices of the machine, as Disk::from_name probes them
SystemDisks ==
    [sda |-> [device |-> "sda", size |-> 40000, table |-> "gpt",
              partitions |-> <<ExistingPartition(1, 2048, 9999, "fat32"),
                               ExistingPartition(2, 10000, 19999, "ext4")>>],
     sdb |-> [device |-> "sdb", size |-> 30000, table |-> "msdos",
              partitions |-> <<ExistingPartition(1, 2048, 11999, "ext4")>>]]

\* Disk::from_name
DiskFromName(block) ==
    IF block \in DOMAIN SystemDisks THEN Ok(SystemDisks[block]) ELSE Err("DiskNotFound")

\* Disks::find_disk_mut: the index of the first disk of that name, 0 if none
FindDisk(ds, block) ==
    LET hits == {i \in 1..Len(ds) : ds[i].device = block}
    IN  IF hits = {} THEN 0 ELSE CHOOSE i \in hits : \A j \in hits : i <= j

\* Disk::get_partition_mut: the index of the partition of that number, 0 if none
FindPartition(disk, part_id) ==
    LET hits == {i \in 1..Len(disk.partitions) : disk.partitions[i].number = part_id}
    IN  IF hits = {} THEN 0 ELSE CHOOSE i \in hits : \A j \in hits : i <= j

\* Disks::find_logical_disk_mut: the index of the device of that group, 0 if none
FindLogicalDisk(lvs, group) ==
    LET hits == {i \in 1..Len(lvs) : lvs[i].volume_group = group}
    IN  IF hits = {} THEN 0 ELSE CHOOSE i \in hits : \A j \in hits : i <= j

\* the count a sector expression carries; counts beyond six digits lie
\* beyond every device of SystemDisks and are taken as one million
SectorCount(n) == IF Len(n) <= 6 THEN NatToInt(DecToNat(n)) ELSE 1000000

Clamp(n) == IF n < 0 THEN 0 ELSE n

\* the sector of the device that a sector expression of that kind and count
\* stands for, for sectors of 512 bytes
SectorAt(size, kind, n) ==
    CASE kind = "Start" -> 0
      [] kind = "End" -> size
      [] kind = "Unit" -> n
      [] kind = "UnitFromEnd" -> Clamp(size - n)
      [] kind = "Megabyte" -> n * 1953
      [] kind = "MegabyteFromEnd" -> Clamp(size - n * 1953)
      [] kind = "Percent" -> (size * (n % 101)) \div 100

\* DiskExt::get_sector
GetSector(device, sector) == SectorAt(device.size, sector.kind, SectorCount(sector.n))

\* whether sectors start..end lie on the device and off every partition that
\* is kept, the partition at index `except` left aside
Fits(device, start, end, except) ==
    /\ start <= end
    /\ end <= device.size
    /\ \A i \in 1..Len(device.partitions) :
           \/ i = except
           \/ device.partitions[i].remove
           \/ end < device.partitions[i].start_sector
           \/ device.partitions[i].end_sector < start

\* Disk::mklabel: a new, empty table of that kind; the device may refuse
Mklabel(disk, kind, refused) ==
    IF refused THEN Err("DiskError")
    ELSE Ok([disk EXCEPT !.table = kind, !.partitions = <<>>])

\* PartitionInfo::remove
Remove(partition) == [partition EXCEPT !.remove = TRUE]

\* the partition at index i set to sectors start..end, if they are free
Place(disk, i, start, end) ==
    IF i = 0 THEN Err("DiskError")
    ELSE IF ~Fits(disk, start, end, i) THEN Err("DiskError")
    ELSE Ok([disk EXCEPT !.partitions[i].start_sector = start,
                         !.partitions[i].end_sector = end])

\* the length of the partition at index i, less one
Span(disk, i) ==
    IF i = 0 THEN 0
    ELSE disk.partitions[i].end_sector - disk.partitions[i].start_sector

\* the first sector of the partition at index i
StartOf(disk, i) == IF i = 0 THEN 0 ELSE disk.partitions[i].start_sector

\* Disk::move_partition: the partition keeps its length
MovePartition(disk, part_id, start) ==
    Place(disk, FindPartition(disk, part_id), start,
          start + Span(disk, FindPartition(disk, part_id)))

\* Disk::resize_partition
ResizePartition(disk, part_id, end) ==
    Place(disk, FindPartition(disk, part_id),
          StartOf(disk, FindPartition(disk, part_id)), end)

\* PartitionBuilder::new
PartitionBuilder(start, end, fs) ==
    [number |-> 0 - 1, start_sector |-> start, end_sector |-> end,
     part_type |-> "primary", filesystem |-> Some(fs), format |-> TRUE,
     target |-> None, key_id |-> None, flags |-> <<>>, volume_group |-> None,
     name |-> None, remove |-> FALSE]

\* Disk::add_partition and LvmDevice::add_partition
AddPartition(device, builder) ==
    IF ~Fits(device, builder.start_sector, builder.end_sector, 0) THEN Err("DiskError")
    ELSE Ok([device EXCEPT !.partitions = Append(@, builder)])

\* the groups named by the partitions of the disks, in order, each once
RECURSIVE GroupsOf(_, _)
GroupsOf(parts, seen) ==
    IF parts = <<>> THEN <<>>
    ELSE LET vg == Head(parts).volume_group
         IN  IF IsSome(vg) /\ vg.some.group \notin seen
             THEN <<vg.some.group>> \o GroupsOf(Tail(parts), seen \cup {vg.some.group})
             ELSE GroupsOf(Tail(parts), seen)

RECURSIVE AllPartitions(_)
AllPartitions(ds) ==
    IF ds = <<>> THEN <<>> ELSE Head(ds).partitions \o AllPartitions(Tail(ds))

\* the sectors of the partitions of a group
RECURSIVE GroupSize(_, _)
GroupSize(parts, group) ==
    IF parts = <<>> THEN 0
    ELSE LET p == Head(parts)
         IN  (IF IsSome(p.volume_group) /\ p.volume_group.some.group = group
              THEN p.end_sector - p.start_sector + 1 ELSE 0)
             + GroupSize(Tail(parts), group)

\* Disks::initialize_volume_groups: one logical device, without volumes, for
\* every group that a partition of the disks names
InitializeVolumeGroups(ds) ==
    LET groups == GroupsOf(AllPartitions(ds), {})
    IN  [i \in 1..Len(groups) |->
            [volume_group |-> groups[i], size |-> GroupSize(AllPartitions(ds), groups[i]),
             partitions |-> <<>>]]

-----------------------------------------------------------------------------
(* The operation parsers.  Each takes the topology and one token and yields *)
(* the topology it leaves and the failure it ended with ("" for none).  A   *)
(* parser is a chain of definitions, one for each run of statements between *)
(* two exits, the values computed so far being handed on as parameters.     *)

Done(topology) == [topology |-> topology, err |-> ""]

Failed(topology, e) == [topology |-> topology, err |-> e]

\* the failure of a token whose number of fields is not within min..max
FieldCount(n, min, max) ==
    IF n < min THEN "TooFewFields" ELSE IF n > max THEN "TooManyFields" ELSE ""

\* the disk at index d replaced by the outcome of an operation on it
OnDisk(ds, d, r) ==
    IF r.ok THEN Done([ds EXCEPT ![d] = r.val]) ELSE Failed(ds, r.err)

\* configure_tables: the match on the disk found and on the kind of table
TableOnDisk(ds, d, kind, refused) ==
    IF d = 0 THEN Failed(ds, "DiskNotFound")
    ELSE IF kind \notin {"gpt", "msdos"} THEN Failed(ds, "InvalidTable")
    ELSE OnDisk(ds, d, Mklabel(ds[d], kind, refused))

TableValues(ds, values, refused) ==
    IF Len(values) # 2 THEN Failed(ds, FieldCount(Len(values), 2, 2))
    ELSE TableOnDisk(ds, FindDisk(ds, values[1]), values[2], refused)

\* configure_tables, one token
TableOp(ds, table, refused) == TableValues(ds, Split(table, ":"), refused)

\* the partition at index i of the disk at index d marked for removal
RemoveAt(ds, d, i) == [ds EXCEPT ![d].partitions[i] = Remove(@)]

\* configure_removed: the loop over the partition ids of one token
RECURSIVE RemoveParts(_, _, _)

RemoveOnDisk(ds, block_dev, parts, d, part_id) ==
    IF d = 0 THEN Failed(ds, "DiskNotFound")
    ELSE IF FindPartition(ds[d], part_id) = 0 THEN Failed(ds, "PartitionNotFound")
    ELSE RemoveParts(RemoveAt(ds, d, FindPartition(ds[d], part_id)), block_dev, parts)

RemovePart(ds, block_dev, parts, part_id) ==
    IF ~IsSome(part_id) THEN Failed(ds, "InvalidNumber")
    ELSE RemoveOnDisk(ds, block_dev, parts, FindDisk(ds, block_dev), AsI32(part_id.some))

RemoveParts(ds, block_dev, parts) ==
    IF parts = <<>> THEN Done(ds)
    ELSE RemovePart(ds, block_dev, Tail(parts), ParseU32(Head(parts)))

RemovedFields(ds, block_dev, parts) ==
    IF ~IsSome(block_dev) THEN Failed(ds, "NoBlockArgument")
    ELSE RemoveParts(ds, block_dev.some, parts)

\* configure_removed, one token
RemovedOp(ds, op) == RemovedFields(ds, Next1(Split(op, ":")), Tail(Split(op, ":")))

\* Some(sector) of a parsed sector
SomeSector(r) == IF r.ok THEN Ok(Some(r.val)) ELSE r

\* a start or end field of a move token: "none", or a sector
SectorOrNone(value, checked) ==
    IF value = "none" THEN Ok(None) ELSE SomeSector(parse_sector(value, checked))

\* a resize that fails puts the partition back where it was before the move
ResizedOrRestored(ds, d, moved, resized) ==
    IF ~resized.ok THEN Failed(ds, resized.err)
    ELSE Done([ds EXCEPT ![d] = resized.val])

\* configure_moved: the resize, after the move
Resized(ds, d, moved, resized) ==
    IF ~resized.ok THEN Failed([ds EXCEPT ![d] = moved], resized.err)
    ELSE Done([ds EXCEPT ![d] = resized.val])

MoveThenResize(ds, d, partition, moved, end) ==
    IF ~moved.ok THEN Failed(ds, moved.err)
    ELSE Resized(ds, d, moved.val,
                 IF IsSome(end)
                 THEN ResizePartition(moved.val, partition, GetSector(moved.val, end.some))
                 ELSE Ok(moved.val))

\* the resize comes first, and the move after it
MoveOnDiskResizeFirst(ds, d, partition, start, end) ==
    IF d = 0 THEN Failed(ds, "DiskNotFound")
    ELSE LET resized == IF IsSome(end)
                        THEN ResizePartition(ds[d], partition, GetSector(ds[d], end.some))
                        ELSE Ok(ds[d])
         IN  IF ~resized.ok THEN Failed(ds, resized.err)
             ELSE Resized(ds, d, resized.val,
                          IF IsSome(start)
                          THEN MovePartition(resized.val, partition,
                                             GetSector(resized.val, start.some))
                          ELSE Ok(resized.val))

MoveOnDisk(ds, d, partition, start, end) ==
    IF d = 0 THEN Failed(ds, "DiskNotFound")
    ELSE MoveThenResize(ds, d, partition,
                        IF IsSome(start)
                        THEN MovePartition(ds[d], partition, GetSector(ds[d], start.some))
                        ELSE Ok(ds[d]),
                        end)

MovedFields(ds, block, partition, start, end) ==
    IF ~IsSome(partition) THEN Failed(ds, "InvalidNumber")
    ELSE IF ~start.ok THEN Failed(ds, start.err)
    ELSE IF ~end.ok THEN Failed(ds, end.err)
    ELSE MoveOnDisk(ds, FindDisk(ds, block), AsI32(partition.some), start.val, end.val)

MovedValues(ds, values, checked) ==
    IF Len(values) # 4 THEN Failed(ds, FieldCount(Len(values), 4, 4))
    ELSE MovedFields(ds, values[1], ParseU32(values[2]),
                     SectorOrNone(values[3], checked), SectorOrNone(values[4], checked))

\* configure_moved, one token
MovedOp(ds, part, checked) == MovedValues(ds, Split(part, ":"), checked)

NoSuffix == [key |-> None, mount |-> None, flags |-> None]

\* the loop over the key=value fields of a reuse or create token
RECURSIVE SuffixFields(_, _)
SuffixFields(values, acc) ==
    IF values = <<>> THEN Ok(acc)
    ELSE IF StartsWith(Head(values), "mount=")
    THEN SuffixFields(Tail(values), [acc EXCEPT !.mount = Some(From(Head(values), 6))])
    ELSE IF StartsWith(Head(values), "flags=")
    THEN SuffixFields(Tail(values),
                      [acc EXCEPT !.flags = Some(parse_flags(From(Head(values), 6)))])
    ELSE IF StartsWith(Head(values), "keyid=")
    THEN SuffixFields(Tail(values), [acc EXCEPT !.key = Some(From(Head(values), 6))])
    ELSE Err("InvalidArgument")

\* a key that comes without mount path is accepted and dropped
MountMissingNever(key, mount) == FALSE

\* the None arm of `match mount` under `if let Some(keyid) = key`
MountMissing(key, mount) == IsSome(key) /\ ~IsSome(mount)

\* PartitionInfo::set_keydata, PartitionInfo::set_mount, or neither; the same
\* on a PartitionBuilder
WithKeyOrMount(partition, key, mount) ==
    IF IsSome(key) /\ IsSome(mount)
    THEN [partition EXCEPT !.key_id = Some([id |-> key.some, target |-> mount.some])]
    ELSE IF IsSome(mount) THEN [partition EXCEPT !.target = mount]
    ELSE partition

\* PartitionInfo::set_volume_group
SetVolumeGroup(partition, group, encryption) ==
    [partition EXCEPT !.volume_group = Some([group |-> group, encryption |-> encryption])]

\* PartitionInfo::format_with
FormatWith(partition, fs) == [partition EXCEPT !.format = TRUE, !.filesystem = Some(fs)]

\* configure_reused: `if let Some(fs) = fs`
Reformat(partition, fs) ==
    IF ~IsSome(fs) THEN partition
    ELSE IF fs.some.tag = "Lvm"
    THEN FormatWith(SetVolumeGroup(partition, fs.some.volume_group, fs.some.encryption),
                    "lvm")
    ELSE FormatWith(partition, fs.some.fs)

\* configure_reused: `if let Some(flags) = flags`
WithFlags(partition, flags) ==
    IF IsSome(flags) THEN [partition EXCEPT !.flags = flags.some] ELSE partition

\* configure_reused: the mutations of the partition found
ReusePartition(partition, fs, sfx) ==
    WithFlags(Reformat(WithKeyOrMount(partition, sfx.key, sfx.mount), fs), sfx.flags)

\* the key without mount path is found after the partition was formatted
ReuseAtKeyCheckedLast(ds, d, i, fs, sfx) ==
    IF i = 0 THEN Failed(ds, "PartitionNotFound")
    ELSE IF MountMissing(sfx.key, sfx.mount)
    THEN Failed([ds EXCEPT ![d].partitions[i] = WithFlags(Reformat(@, fs), sfx.flags)],
                "MountRequiredWithKey")
    ELSE Done([ds EXCEPT ![d].partitions[i] = ReusePartition(@, fs, sfx)])

ReuseAt(ds, d, i, fs, sfx) ==
    IF i = 0 THEN Failed(ds, "PartitionNotFound")
    ELSE IF MountMissing(sfx.key, sfx.mount) THEN Failed(ds, "MountRequiredWithKey")
    ELSE Done([ds EXCEPT ![d].partitions[i] = ReusePartition(@, fs, sfx)])

ReuseOnDisk(ds, d, part_id, fs, sfx) ==
    IF d = 0 THEN Failed(ds, "DiskNotFound")
    ELSE ReuseAt(ds, d, FindPartition(ds[d], part_id), fs, sfx)

ReusedFields(ds, block_dev, part_id, fs, sfx) ==
    IF ~IsSome(part_id) THEN Failed(ds, "InvalidNumber")
    ELSE IF ~fs.ok THEN Failed(ds, fs.err)
    ELSE IF ~sfx.ok THEN Failed(ds, sfx.err)
    ELSE ReuseOnDisk(ds, FindDisk(ds, block_dev), AsI32(part_id.some), fs.val, sfx.val)

\* Some(fs) of a parsed file system
SomeFs(r) == IF r.ok THEN Ok(Some(r.val)) ELSE r

\* the fs field of a reuse token: "reuse", or a file system
FsOrReuse(fs) == IF fs = "reuse" THEN Ok(None) ELSE SomeFs(parse_fs(fs))

\* a Reuse token may have six fields
ReusedValuesSix(ds, values) ==
    IF Len(values) < 3 THEN Failed(ds, "TooFewFields")
    ELSE IF Len(values) > 6 THEN Failed(ds, "TooManyFields")
    ELSE ReusedFields(ds, values[1], ParseU32(values[2]), FsOrReuse(values[3]),
                      SuffixFields(SubSeq(values, 4, Len(values)), NoSuffix))

ReusedValues(ds, values) ==
    IF Len(values) < 3 THEN Failed(ds, "TooFewFields")
    ELSE IF Len(values) > 5 THEN Failed(ds, "TooManyFields")
    ELSE ReusedFields(ds, values[1], ParseU32(values[2]), FsOrReuse(values[3]),
                      SuffixFields(SubSeq(values, 4, Len(values)), NoSuffix))

\* configure_reused, one token
ReusedOp(ds, part) == ReusedValues(ds, Split(part, ":"))

parse_part_type(table) ==
    IF table \in {"primary", "logical"} THEN Ok(table) ELSE Err("InvalidPartitionType")

\* configure_new: the builder of the partition, before flags, key and mount
NewBuilder(start, end, kind, fs) ==
    IF fs.tag = "Lvm"
    THEN [SetVolumeGroup(PartitionBuilder(start, end, "lvm"), fs.volume_group,
                         fs.encryption) EXCEPT !.part_type = kind]
    ELSE [PartitionBuilder(start, end, fs.fs) EXCEPT !.part_type = kind]

\* configure_new: from the builder to add_partition
NewBuilt(ds, d, builder, sfx) ==
    IF MountMissing(sfx.key, sfx.mount) THEN Failed(ds, "MountRequiredWithKey")
    ELSE OnDisk(ds, d, AddPartition(ds[d],
                           WithKeyOrMount(WithFlags(builder, sfx.flags), sfx.key, sfx.mount)))

NewOnDisk(ds, d, kind, start, end, fs, sfx) ==
    IF d = 0 THEN Failed(ds, "DiskNotFound")
    ELSE NewBuilt(ds, d,
                  NewBuilder(GetSector(ds[d], start), GetSector(ds[d], end), kind, fs),
                  sfx)

NewFields(ds, block, kind, start, end, fs, sfx) ==
    IF ~kind.ok THEN Failed(ds, kind.err)
    ELSE IF ~start.ok THEN Failed(ds, start.err)
    ELSE IF ~end.ok THEN Failed(ds, end.err)
    ELSE IF ~fs.ok THEN Failed(ds, fs.err)
    ELSE IF ~sfx.ok THEN Failed(ds, sfx.err)
    ELSE NewOnDisk(ds, FindDisk(ds, block), kind.val, start.val, end.val, fs.val, sfx.val)

\* a Create token is checked for too few fields only
NewValuesUnbounded(ds, values, checked) ==
    IF Len(values) < 5 THEN Failed(ds, "TooFewFields")
    ELSE NewFields(ds, values[1], parse_part_type(values[2]),
                   parse_sector(values[3], checked), parse_sector(values[4], checked),
                   parse_fs(values[5]),
                   SuffixFields(SubSeq(values, 6, Len(values)), NoSuffix))

NewValues(ds, values, checked) ==
    IF Len(values) < 5 THEN Failed(ds, "TooFewFields")
    ELSE IF Len(values) > 7 THEN Failed(ds, "TooManyFields")
    ELSE NewFields(ds, values[1], parse_part_type(values[2]),
                   parse_sector(values[3], checked), parse_sector(values[4], checked),
                   parse_fs(values[5]),
                   SuffixFields(SubSeq(values, 6, Len(values)), NoSuffix))

\* configure_new, one token
NewOp(ds, part, checked) == NewValues(ds, Split(part, ":"), checked)

\* parse_logical: the loop over the key=value fields of a token
RECURSIVE LogicalFields(_, _)
LogicalFields(values, acc) ==
    IF values = <<>> THEN Ok(acc)
    ELSE IF StartsWith(Head(values), "mount=")
    THEN IF From(Head(values), 6) = "" THEN Err("EmptyValue")
         ELSE LogicalFields(Tail(values), [acc EXCEPT !.mount = Some(From(Head(values), 6))])
    ELSE IF StartsWith(Head(values), "flags=")
    THEN IF From(Head(values), 6) = "" THEN Err("EmptyValue")
         ELSE LogicalFields(Tail(values),
                  [acc EXCEPT !.flags = Some(parse_flags(From(Head(values), 6)))])
    ELSE Err("InvalidArgument")

\* parse_logical: the LogicalArgs handed to the action
LogicalArgs(group, name, size, fs, sfx) ==
    IF ~sfx.ok THEN sfx
    ELSE IF ~size.ok THEN size
    ELSE IF ~fs.ok THEN fs
    ELSE IF fs.val.tag = "Lvm" THEN Err("Panic")
    ELSE Ok([group |-> group, name |-> name, size |-> size.val, fs |-> fs.val.fs,
             mount |-> sfx.val.mount, flags |-> sfx.val.flags])

\* parse_logical, one token
ParseLogical(values, checked) ==
    IF Len(values) < 4 THEN Err("TooFewFields")
    ELSE IF Len(values) > 6 THEN Err("TooManyFields")
    ELSE LogicalArgs(values[1], values[2], parse_sector(values[3], checked),
                     parse_fs(values[4]),
                     LogicalFields(SubSeq(values, 5, Len(values)),
                                   [mount |-> None, flags |-> None]))

\* a sector is left free after the last partition of a logical device
NextStartSkipsOne(parts) == IF parts = <<>> THEN 0 ELSE parts[Len(parts)].end_sector + 2

\* the sector after the last partition of a logical device, 0 on an empty one
NextStart(parts) == IF parts = <<>> THEN 0 ELSE parts[Len(parts)].end_sector + 1

\* configure_lvm: the builder of the logical volume
LogicalBuilder(start, length, la) ==
    [PartitionBuilder(start, start + length, la.fs) EXCEPT
         !.name = Some(la.name),
         !.target = la.mount,
         !.flags = IF IsSome(la.flags) THEN la.flags.some ELSE @]

\* a group that has no logical device is given one
PlaceLogicalAnywhere(lvs, g, la) ==
    IF g = 0
    THEN Done(Append(lvs, [volume_group |-> la.group, size |-> 0, partitions |-> <<>>]))
    ELSE OnDisk(lvs, g,
                AddPartition(lvs[g],
                             LogicalBuilder(NextStart(lvs[g].partitions),
                                            GetSector(lvs[g], la.size), la)))

\* configure_lvm: the action on one LogicalArgs
PlaceLogical(lvs, g, la) ==
    IF g = 0 THEN Failed(lvs, "VolumeGroupNotFound")
    ELSE OnDisk(lvs, g,
                AddPartition(lvs[g],
                             LogicalBuilder(NextStart(lvs[g].partitions),
                                            GetSector(lvs[g], la.size), la)))

LogicalParsed(lvs, la) ==
    IF ~la.ok THEN Failed(lvs, la.err)
    ELSE PlaceLogical(lvs, FindLogicalDisk(lvs, la.val.group), la.val)

\* configure_lvm, one token
LogicalOp(lvs, value, checked) == LogicalParsed(lvs, ParseLogical(Split(value, ":"), checked))

-----------------------------------------------------------------------------
(* configure_disks: the stages in the order of its calls, and main's exit   *)
(* on the first failure.                                                    *)

\* a later stage called before an earlier one: the logical volumes are
\* configured before the volume groups are initialised
StagesLogicalFirst ==
    <<"disk", "table", "delete", "move", "use", "new", "logical", "initialize">>

\* the calls of configure_disks, in order; each name but "initialize" is also
\* the name of the argument group the stage consumes
Stages ==
    <<"disk", "table", "delete", "move", "use", "new", "initialize", "logical">>

\* the number of steps of a stage: its tokens, or the one call of
\* initialize_volume_groups
StageLen(stage) == IF stage = "initialize" THEN 1 ELSE Len(args[stage])

StageIndex(stage) == CHOOSE k \in 1..Len(Stages) : Stages[k] = stage

\* the position of the next step at or after step i of stage k
RECURSIVE Resume(_, _)
Resume(k, i) ==
    IF k > Len(Stages) THEN [pc |-> "done", idx |-> 0]
    ELSE IF i < StageLen(Stages[k]) THEN [pc |-> Stages[k], idx |-> i]
    ELSE Resume(k + 1, 0)

\* the loop goes on, or the stage returns Ok(()) and the next one is called
Continue ==
    LET n == Resume(StageIndex(pc), idx + 1)
    IN  pc' = n.pc /\ idx' = n.idx /\ err' = ""

\* a failure that is recorded while the run goes on with the next token
AbortAndGoOn(e) ==
    LET n == Resume(StageIndex(pc), idx + 1)
    IN  pc' = n.pc /\ idx' = n.idx /\ err' = e

\* exit(1) in a parser, or Err propagated by `?` to main, which exits
Abort(e) == pc' = "failed" /\ idx' = idx /\ err' = e

\* the end of one step that left the failure e, "" for none
Finish(stage, e) ==
    /\ applied' = Append(applied, <<stage, idx + 1>>)
    /\ IF e = "" THEN Continue ELSE Abort(e)

\* one step of a stage that works on the disks
OnDisks(stage, r) == disks' = r.topology /\ Finish(stage, r.err)

\* Disks::add of a disk that was found
Added(ds, r) == IF r.ok THEN Done(Append(ds, r.val)) ELSE Failed(ds, r.err)

\* disks.add(Disk::from_name(block)?)
RegisterDisk ==
    /\ pc = "disk"
    /\ OnDisks("disk", Added(disks, DiskFromName(args.disk[idx + 1])))
    /\ UNCHANGED <<args, vgs, overflow_checks, input, output>>

ConfigureTables ==
    /\ pc = "table"
    /\ \E refused \in BOOLEAN :
           OnDisks("table", TableOp(disks, args.table[idx + 1], refused))
    /\ UNCHANGED <<args, vgs, overflow_checks, input, output>>

ConfigureRemoved ==
    /\ pc = "delete"
    /\ OnDisks("delete", RemovedOp(disks, args.delete[idx + 1]))
    /\ UNCHANGED <<args, vgs, overflow_checks, input, output>>

ConfigureMoved ==
    /\ pc = "move"
    /\ OnDisks("move", MovedOp(disks, args.move[idx + 1], overflow_checks))
    /\ UNCHANGED <<args, vgs, overflow_checks, input, output>>

ConfigureReused ==
    /\ pc = "use"
    /\ OnDisks("use", ReusedOp(disks, args.use[idx + 1]))
    /\ UNCHANGED <<args, vgs, overflow_checks, input, output>>

ConfigureNew ==
    /\ pc = "new"
    /\ OnDisks("new", NewOp(disks, args.new[idx + 1], overflow_checks))
    /\ UNCHANGED <<args, vgs, overflow_checks, input, output>>

InitializeGroups ==
    /\ pc = "initialize"
    /\ vgs' = InitializeVolumeGroups(disks)
    /\ Finish("initialize", "")
    /\ UNCHANGED <<args, disks, overflow_checks, input, output>>

\* one step of configure_lvm
OnGroups(r) == vgs' = r.topology /\ Finish("logical", r.err)

ConfigureLvm ==
    /\ pc = "logical"
    /\ OnGroups(LogicalOp(vgs, args.logical[idx + 1], overflow_checks))
    /\ UNCHANGED <<args, disks, overflow_checks, input, output>>

Next ==
    \/ RegisterDisk
    \/ ConfigureTables
    \/ ConfigureRemoved
    \/ ConfigureMoved
    \/ ConfigureReused
    \/ ConfigureNew
    \/ InitializeGroups
    \/ ConfigureLvm

\* the -b values of the command lines considered
DiskLists == {<<"sda">>, <<"sda", "sdb">>, <<"sda", "sdx">>}

\* the values of the other options of the command lines considered, each
\* with the name of its option
OptionPool ==
    {<<"table", "sda:gpt">>, <<"table", "sdx:msdos">>, <<"table", "sda">>,
     <<"table", "sdx:gpt:x">>,
     <<"delete", "sda:1:2">>, <<"delete", "sdx">>, <<"delete", "sda:1:9">>,
     <<"delete", "sdb:x">>,
     <<"move", "sda:2:none:none">>, <<"move", "sda:2:20000:none">>,
     <<"move", "sda:2:20000:1">>, <<"move", "sda:1:4MiB">>,
     <<"move", "sdx:1:none:none:none">>, <<"move", "sda:1:8796093022208MiB:none">>,
     <<"use", "sda:1:reuse">>, <<"use", "sda:2:lvm=vg1:mount=/">>,
     <<"use", "sda:1:ext4:keyid=k">>, <<"use", "sda:1:fat32:keyid=k:mount=/boot">>,
     <<"use", "sdx:1">>, <<"use", "sdx:1:reuse:a:b:c">>,
     <<"new", "sda:primary:20000:29999:lvm=vg1">>,
     <<"new", "sda:primary:20000:29999:ext4:flags=boot:keyid=k">>,
     <<"new", "sda:primary:start:end">>, <<"new", "sdx:a:b:c:d:e:f:g">>,
     <<"new", "sda:primary:0:end:ext4">>,
     <<"new", "sdb:logical:12000:19999:enc=pv1,vg2,pass=s:mount=/:flags=boot">>,
     <<"logical", "vg1:root:5000:ext4">>, <<"logical", "vg9:x:1:ext4">>,
     <<"logical", "vg1:a:b">>, <<"logical", "vg1:a:1:ext4:x:y:z">>,
     <<"logical", "vg2:home:1M:ext4:mount=/home">>}

\* the number of option values on a command line, -b aside
MaxOptions == 2

\* the command lines: up to n option values, in any order
RECURSIVE CommandLines(_)
CommandLines(n) ==
    IF n = 0 THEN {<<>>}
    ELSE CommandLines(n - 1)
             \cup {<<o>> \o c : o \in OptionPool, c \in CommandLines(n - 1)}

\* the values of one option, in the order given
RECURSIVE ValuesOf(_, _)
ValuesOf(line, option) ==
    IF line = <<>> THEN <<>>
    ELSE (IF Head(line)[1] = option THEN <<Head(line)[2]>> ELSE <<>>)
             \o ValuesOf(Tail(line), option)

\* ArgMatches: the values of the command line grouped by option
Matches(disk, line) ==
    [disk |-> disk, table |-> ValuesOf(line, "table"),
     delete |-> ValuesOf(line, "delete"), move |-> ValuesOf(line, "move"),
     use |-> ValuesOf(line, "use"), new |-> ValuesOf(line, "new"),
     logical |-> ValuesOf(line, "logical")]

Init ==
    /\ pc = "disk"
    /\ idx = 0
    /\ args \in {Matches(d, c) : d \in DiskLists, c \in CommandLines(MaxOptions)}
    /\ disks = <<>>
    /\ vgs = <<>>
    /\ err = ""
    /\ applied = <<>>
    /\ overflow_checks \in BOOLEAN
    /\ input = ""
    /\ output = None

Spec == Init /\ [][Next]_vars

-----------------------------------------------------------------------------
(* The parsers on their own: one call of a parser on a token drawn from a  *)
(* bounded set of tokens.                                                  *)

\* the strings made of 1..n pieces of the pool joined by sep
RECURSIVE Joined(_, _, _)
Joined(pool, sep, n) ==
    IF n = 0 THEN {}
    ELSE pool \cup {a \o sep \o b : a \in pool, b \in Joined(pool, sep, n - 1)}

Idle ==
    /\ args = Matches(<<>>, <<>>) /\ idx = 0 /\ disks = <<>> /\ vgs = <<>>
    /\ err = "" /\ applied = <<>>

MaxDigits == 2

SectorDigitPool == {"0", "1", "7"}

SectorNumbers ==
    Joined(SectorDigitPool, "", MaxDigits)
        \cup {"", "x", "1000", "4096", "8796093022207", "8796093022208",
              "8796093022209", "9223372036854", "9223372036854775807",
              "9223372036854775808"}

SectorInputs ==
    {sign \o n \o "MiB" : sign \in {"", "-", "+"}, n \in SectorNumbers}
        \cup {"start", "end", "50%", "10M", "-10M", "2048", "-2048", "MiB10", "1GiB"}

InitSector ==
    /\ Idle
    /\ pc = "call"
    /\ overflow_checks \in BOOLEAN
    /\ input \in SectorInputs
    /\ output = None

CallSector ==
    /\ pc = "call"
    /\ pc' = "ret"
    /\ output' = [handed |-> SectorToken(input, overflow_checks),
                  result |-> parse_sector(input, overflow_checks)]
    /\ UNCHANGED <<args, idx, disks, vgs, err, applied, overflow_checks, input>>

NextSector == CallSector

SpecSector == InitSector /\ [][NextSector]_vars

MaxFlagTokens == 3

FlagTokenPool == {"boot", "esp", "bogus", "", "irst", "Boot"}

InitFlags ==
    /\ Idle
    /\ pc = "call"
    /\ overflow_checks = FALSE
    /\ input \in Joined(FlagTokenPool, ",", MaxFlagTokens)
    /\ output = None

CallFlags ==
    /\ pc = "call"
    /\ pc' = "ret"
    /\ output' = parse_flags(input)
    /\ UNCHANGED <<args, idx, disks, vgs, err, applied, overflow_checks, input>>

NextFlags == CallFlags

SpecFlags == InitFlags /\ [][NextFlags]_vars

MaxFsFields == 4

FsFieldPool ==
    {"", "pv1", "vg1", "pass=secret", "pass=", "keyfile=/k", "keyfile=",
     "pass=other", "ext4"}

InitFs ==
    /\ Idle
    /\ pc = "call"
    /\ overflow_checks = FALSE
    /\ input \in {p \o f : p \in {"enc=", "lvm=", ""},
                           f \in Joined(FsFieldPool, ",", MaxFsFields)}
    /\ output = None

CallFs ==
    /\ pc = "call"
    /\ pc' = "ret"
    /\ output' = parse_fs(input)
    /\ UNCHANGED <<args, idx, disks, vgs, err, applied, overflow_checks, input>>

NextFs == CallFs

SpecFs == InitFs /\ [][NextFs]_vars

-----------------------------------------------------------------------------
(* configure_lvm on groups of its own: runs that create two groups and then *)
(* place up to MaxVolumes logical volumes.                                  *)

\* the Create tokens that name the groups
GroupTokens ==
    <<"sda:primary:20000:29999:lvm=vg1", "sda:primary:30000:39999:lvm=vg2">>

\* the Create-Logical tokens considered
LogicalPool ==
    {"vg1:a:3000:ext4", "vg1:b:1M:ext4", "vg1:c:0:ext4", "vg2:d:3000:ext4",
     "vg1:e:end:ext4", "vg1:f:-9000:ext4", "vg1:g:50%:ext4"}

\* the number of Create-Logical tokens on a command line
MaxVolumes == 3

\* the sequences of up to n Create-Logical tokens
RECURSIVE Volumes(_)
Volumes(n) ==
    IF n = 0 THEN {<<>>}
    ELSE Volumes(n - 1) \cup {<<v>> \o s : v \in LogicalPool, s \in Volumes(n - 1)}

InitLvm ==
    /\ pc = "disk"
    /\ idx = 0
    /\ args \in {[Matches(<<"sda">>, <<>>) EXCEPT !.new = GroupTokens, !.logical = s] :
                     s \in Volumes(MaxVolumes)}
    /\ disks = <<>>
    /\ vgs = <<>>
    /\ err = ""
    /\ applied = <<>>
    /\ overflow_checks \in BOOLEAN
    /\ input = ""
    /\ output = None

\* the stages that have a step on these command lines
NextLvm ==
    \/ RegisterDisk
    \/ ConfigureNew
    \/ InitializeGroups
    \/ ConfigureLvm

SpecLvm == InitLvm /\ [][NextLvm]_vars

-----------------------------------------------------------------------------
(* configure_removed and configure_moved on their own: runs of up to       *)
(* MaxEdits Delete and Move tokens.                                        *)

\* the Delete and Move tokens considered, each with the name of its option
EditPool ==
    {<<"delete", "sda:1:2">>, <<"delete", "sda:1:9">>, <<"delete", "sda:1:x">>,
     <<"delete", "sda:9:1">>, <<"delete", "sdb:1">>, <<"delete", "sda:2:1:x">>,
     <<"move", "sda:2:none:none">>, <<"move", "sda:9:none:none">>,
     <<"move", "sda:2:20000:none">>, <<"move", "sda:2:none:15000">>,
     <<"move", "sda:2:20000:25000">>, <<"move", "sda:2:20000:1">>,
     <<"move", "sda:2:35000:39000">>, <<"move", "sda:1:none:2047">>,
     <<"move", "sdx:1:none:none">>, <<"move", "sda:x:none:none">>,
     <<"move", "sda:2:bogus:none">>, <<"move", "sdb:1:20000:none">>}

\* the number of Delete and Move tokens on a command line
MaxEdits == 2

\* the command lines of up to n values of the pool, in any order
RECURSIVE LinesOver(_, _)
LinesOver(pool, n) ==
    IF n = 0 THEN {<<>>}
    ELSE LinesOver(pool, n - 1)
             \cup {<<o>> \o c : o \in pool, c \in LinesOver(pool, n - 1)}

InitEdit ==
    /\ pc = "disk"
    /\ idx = 0
    /\ args \in {Matches(d, c) : d \in {<<"sda">>, <<"sda", "sdb">>},
                                  c \in LinesOver(EditPool, MaxEdits)}
    /\ disks = <<>>
    /\ vgs = <<>>
    /\ err = ""
    /\ applied = <<>>
    /\ overflow_checks \in BOOLEAN
    /\ input = ""
    /\ output = None

\* the stages that have a step on these command lines
NextEdit ==
    \/ RegisterDisk
    \/ ConfigureRemoved
    \/ ConfigureMoved
    \/ InitializeGroups

SpecEdit == InitEdit /\ [][NextEdit]_vars

-----------------------------------------------------------------------------
(* configure_reused and configure_new on their own: runs of one Reuse or   *)
(* Create token, made of its fixed fields and up to MaxSuffix more fields. *)

\* the fixed fields of the Reuse tokens considered
UsePrefixes ==
    {"sda:1:reuse", "sda:1:ext4", "sda:2:lvm=vg1", "sda:x:ext4", "sda:1:bogusfs",
     "sdx:1:ext4", "sda:9:ext4", "sda:1"}

\* the fixed fields of the Create tokens considered
NewPrefixes ==
    {"sda:primary:20000:29999:ext4", "sda:primary:20000:29999:lvm=vg1"}

\* the fields that follow the fixed ones
SuffixPool ==
    {"mount=/a", "mount=/b", "flags=boot", "flags=esp,boot", "keyid=k", "keyid=j",
     "bogus"}

\* the number of fields after the fixed ones
MaxSuffix == 3

\* the tokens made of one of the prefixes and up to MaxSuffix more fields
SuffixTokens(prefixes) ==
    prefixes \cup {p \o ":" \o t : p \in prefixes, t \in Joined(SuffixPool, ":", MaxSuffix)}

InitSuffix ==
    /\ pc = "disk"
    /\ idx = 0
    /\ args \in {[Matches(<<"sda">>, <<>>) EXCEPT !.use = <<t>>] :
                     t \in SuffixTokens(UsePrefixes)}
               \cup {[Matches(<<"sda">>, <<>>) EXCEPT !.new = <<t>>] :
                         t \in SuffixTokens(NewPrefixes)}
    /\ disks = <<>>
    /\ vgs = <<>>
    /\ err = ""
    /\ applied = <<>>
    /\ overflow_checks = FALSE
    /\ input = ""
    /\ output = None

\* the stages that have a step on these command lines
NextSuffix ==
    \/ RegisterDisk
    \/ ConfigureReused
    \/ ConfigureNew
    \/ InitializeGroups

SpecSuffix == InitSuffix /\ [][NextSuffix]_vars

-----------------------------------------------------------------------------
(* Properties of the parsers *)

\* floor(n * 1048576 / 1000000) of the integer n, without any width
FloorMegabytes(n) ==
    LET dr == DivRem(MulAdd(n.mag, 1048576, 0), 1000000)
        q  == Norm(dr.q)
    IN  IF n.neg /\ dr.r # 0 THEN [neg |-> TRUE, mag |-> Norm(MulAdd(q, 1, 1))]
        ELSE [neg |-> n.neg /\ q # <<>>, mag |-> q]

\* C6: for every token "<N>MiB" whose N parses as an i64, negative and
\* overflowing N included, the token handed to the generic sector parser is
\* "<floor(N * 1048576 / 1000000)>M".
C6_MebibyteTokenIsFloor ==
    (pc = "ret" /\ EndsWith(input, "MiB")) =>
        LET n == ParseI64(SubSeq(input, 1, Len(input) - 3))
        IN  IsSome(n) =>
                output.handed = Ok(IntToDec(FloorMegabytes(n.some)) \o "M")

\* the largest element of a non-empty set of integers
Last(S) == CHOOSE i \in S : \A j \in S : j <= i

\* C7: an accepted enc= token yields a Logical-Volume choice whose group is
\* field 1 of the comma-split remainder; the encryption descriptor is present
\* exactly when a pass= or keyfile= field was supplied, and then carries
\* field 0 as physical volume and the passphrase and keyfile supplied.
C7_EncYieldsLvm ==
    pc = "ret" =>
        /\ (StartsWith(input, "enc=") /\ output.ok) =>
            LET f      == Split(From(input, 4), ",")
                passAt == {i \in 3..Len(f) : StartsWith(f[i], "pass=")}
                keyAt  == {i \in 3..Len(f) : StartsWith(f[i], "keyfile=")}
                pass   == IF passAt = {} THEN None
                          ELSE Some(From(f[Last(passAt)], 5))
                key    == IF keyAt = {} THEN None
                          ELSE Some(From(f[Last(keyAt)], 8))
                enc    == output.val.encryption
            IN  /\ output.val.tag = "Lvm"
                /\ Len(f) >= 2
                /\ output.val.volume_group = f[2]
                /\ IsSome(enc) <=> (passAt \cup keyAt # {})
                /\ IsSome(enc) =>
                       enc.some = [physical_volume |-> f[1], password |-> pass,
                                   keydata |-> key]
        /\ input = "enc=pv1,vg1,pass=secret" =>
               output = Ok([tag |-> "Lvm", volume_group |-> "vg1",
                            encryption |-> Some([physical_volume |-> "pv1",
                                                 password |-> Some("secret"),
                                                 keydata |-> None])])
        /\ input = "enc=pv1,vg1" =>
               output = Ok([tag |-> "Lvm", volume_group |-> "vg1",
                            encryption |-> None])

\* an enc= token with a passphrase and a keyfile has been accepted
C7_Witness ==
    /\ pc = "ret"
    /\ input = "enc=pv1,vg1,pass=secret,keyfile=/k"
    /\ output.ok
    /\ IsSome(output.val.encryption)

\* C8: "enc=" fails with MissingPhysicalVolume, "enc=pv1" and "lvm=" fail
\* with MissingVolumeGroup, and no accepted enc= or lvm= token yields a
\* Logical-Volume choice with an empty volume-group name.
C8_NamesRequired ==
    pc = "ret" =>
        /\ input = "enc=" => output = Err("MissingPhysicalVolume")
        /\ input = "enc=pv1" => output = Err("MissingVolumeGroup")
        /\ input = "lvm=" => output = Err("MissingVolumeGroup")
        /\ ((StartsWith(input, "enc=") \/ StartsWith(input, "lvm=")) /\ output.ok)
               => output.val.volume_group # ""

\* C9: parse_flags returns exactly the flags whose tokens occur in the list
\* and in the 17-entry table; unknown tokens are dropped, the empty input
\* yields no flag and "boot,bogus,esp" yields {boot, esp}.
C9_FlagsAreRecognizedTokens ==
    pc = "ret" =>
        LET toks  == Split(input, ",")
            given == {toks[i] : i \in 1..Len(toks)}
        IN  /\ Cardinality(FlagTable) = 17
            /\ Cardinality({e[1] : e \in FlagTable}) = 17
            /\ Cardinality({e[2] : e \in FlagTable}) = 17
            /\ {output[i] : i \in 1..Len(output)}
                   = {e[2] : e \in {t \in FlagTable : t[1] \in given}}
            /\ input = "" => output = <<>>
            /\ input = "boot,bogus,esp"
                   => output = <<"PED_PARTITION_BOOT", "PED_PARTITION_ESP">>

\* a list mixing recognised and unrecognised tokens has been mapped
C9_Witness ==
    /\ pc = "ret"
    /\ input = "boot,bogus,esp"
    /\ Len(output) = 2

-----------------------------------------------------------------------------
(* Properties of the pipeline *)

\* the token that the next step consumes
Token == args[pc][idx + 1]

\* whether the next step consumes a token of that option
At(option) == pc = option /\ idx < Len(args[option])

\* the stages in the order stated for them
StageRank ==
    [disk |-> 1, table |-> 2, delete |-> 3, move |-> 4, use |-> 5, new |-> 6,
     initialize |-> 7, logical |-> 8]

\* the number of steps a stage has in this run
StepsOf(stage) == IF stage = "initialize" THEN 1 ELSE Len(args[stage])

\* C1: the stages run in the order disks, Relabel, Delete, Move, Reuse,
\* Create, volume-group materialization, Create-Logical: every step
\* processed comes after every step of each earlier stage, and the tokens of
\* one stage are processed in the order given.
C1_StageOrder ==
    /\ \A i, j \in 1..Len(applied) :
           i < j =>
               \/ StageRank[applied[i][1]] < StageRank[applied[j][1]]
               \/ /\ applied[i][1] = applied[j][1]
                  /\ applied[i][2] < applied[j][2]
    /\ \A j \in 1..Len(applied) :
           \A stage \in DOMAIN StageRank :
               StageRank[stage] < StageRank[applied[j][1]] =>
                   \A k \in 1..StepsOf(stage) :
                       \E i \in 1..(j - 1) : applied[i] = <<stage, k>>

\* a run with Create and Create-Logical tokens has come to its end
C1_Witness ==
    /\ pc = "done"
    /\ Len(args.new) > 0
    /\ Len(args.logical) > 0
    /\ Len(applied) = Len(args.disk) + 3

\* the groups that have a logical device
Materialized == {vgs[i].volume_group : i \in 1..Len(vgs)}

\* the groups that the partitions of the disks name
Requested ==
    {p.volume_group.some.group :
         p \in {q \in UNION {{disks[d].partitions[i] : i \in 1..Len(disks[d].partitions)} :
                                 d \in 1..Len(disks)} : IsSome(q.volume_group)}}

\* C2: a Create-Logical token that parses fails with VolumeGroupNotFound,
\* and appends nothing, exactly when its group has no logical device; and
\* whenever a Create-Logical token is looked up, every group that a
\* partition reused or created in the run names has its logical device.
C2_GroupsBeforeLogical ==
    /\ [](pc = "logical" => Requested \subseteq Materialized)
    /\ [][At("logical") =>
             LET la == ParseLogical(Split(Token, ":"), overflow_checks)
             IN  la.ok =>
                     /\ err' = "VolumeGroupNotFound" <=> la.val.group \notin Materialized
                     /\ la.val.group \notin Materialized => vgs' = vgs]_vars

\* a logical volume has been placed in a group that a partition created in
\* the same run names
C2_Witness ==
    /\ pc = "done"
    /\ \E i \in 1..Len(vgs) : Len(vgs[i].partitions) > 0
    /\ \E d \in 1..Len(disks) : \E i \in 1..Len(disks[d].partitions) :
           /\ disks[d].partitions[i].number < 0
           /\ IsSome(disks[d].partitions[i].volume_group)

\* a partition as a failing Delete or Move token may leave it: as it was,
\* marked for removal, or moved
LeftBy(p, q) ==
    \/ q = p
    \/ q = [p EXCEPT !.remove = TRUE]
    \/ q = [p EXCEPT !.start_sector = q.start_sector, !.end_sector = q.end_sector]

\* C3: the run is fail-fast without rollback: nothing is processed after a
\* failure, a failure ends the run in the error state, and the step that
\* fails leaves in the topology what the earlier steps had put there.
C3_FailFast ==
    [][/\ err = ""
       /\ err' # "" =>
              /\ pc' = "failed"
              /\ vgs' = vgs
              /\ Len(disks') = Len(disks)
              /\ \A d \in 1..Len(disks) :
                     /\ disks'[d].device = disks[d].device
                     /\ disks'[d].table = disks[d].table
                     /\ Len(disks'[d].partitions) = Len(disks[d].partitions)
                     /\ \A i \in 1..Len(disks[d].partitions) :
                            LeftBy(disks[d].partitions[i], disks'[d].partitions[i])]_vars

\* a Delete token has failed after it marked a partition, which stays
\* marked, and a token of a later stage is left unprocessed
C3_Witness ==
    /\ pc = "failed"
    /\ applied[Len(applied)][1] = "delete"
    /\ \E d \in 1..Len(disks) : \E i \in 1..Len(disks[d].partitions) :
           disks[d].partitions[i].remove
    /\ Len(args.logical) > 0

\* whether some field of the sequence starts with the prefix
SomeStarts(fields, prefix) == \E i \in 1..Len(fields) : StartsWith(fields[i], prefix)

\* the fields are mount=, flags= or keyid= fields, with a key and no mount
KeyWithoutMount(fields) ==
    /\ \A i \in 1..Len(fields) :
           \/ StartsWith(fields[i], "mount=")
           \/ StartsWith(fields[i], "flags=")
           \/ StartsWith(fields[i], "keyid=")
    /\ SomeStarts(fields, "keyid=")
    /\ ~SomeStarts(fields, "mount=")

\* a Reuse token that is valid but for its key without mount
ReuseKeyOnly(values) ==
    /\ Len(values) \in 3..5
    /\ IsSome(ParseU32(values[2]))
    /\ values[3] = "reuse" \/ parse_fs(values[3]).ok
    /\ FindDisk(disks, values[1]) # 0
    /\ FindPartition(disks[FindDisk(disks, values[1])], AsI32(ParseU32(values[2]).some)) # 0
    /\ KeyWithoutMount(SubSeq(values, 4, Len(values)))

\* a Create token that is valid but for its key without mount
CreateKeyOnly(values) ==
    /\ Len(values) \in 5..7
    /\ parse_part_type(values[2]).ok
    /\ parse_sector(values[3], overflow_checks).ok
    /\ parse_sector(values[4], overflow_checks).ok
    /\ parse_fs(values[5]).ok
    /\ FindDisk(disks, values[1]) # 0
    /\ KeyWithoutMount(SubSeq(values, 6, Len(values)))

\* C4: a Reuse or Create token that is valid but for a keyid= field without
\* a mount= field fails with MountRequiredWithKey and leaves the topology
\* as it was.
C4_KeyNeedsMount ==
    [][/\ (At("use") /\ ReuseKeyOnly(Split(Token, ":"))) =>
              /\ err' = "MountRequiredWithKey"
              /\ disks' = disks /\ vgs' = vgs
       /\ (At("new") /\ CreateKeyOnly(Split(Token, ":"))) =>
              /\ err' = "MountRequiredWithKey"
              /\ disks' = disks /\ vgs' = vgs]_vars

\* a Reuse token with a key and no mount has failed
C4_Witness ==
    /\ pc = "failed"
    /\ err = "MountRequiredWithKey"
    /\ applied[Len(applied)][1] = "use"

\* the least and the greatest number of fields of a token of each option
MinFields == [table |-> 2, move |-> 4, use |-> 3, new |-> 5, logical |-> 4]

MaxFields == [table |-> 2, move |-> 4, use |-> 5, new |-> 7, logical |-> 6]

\* C5: a Relabel, Move, Reuse, Create or Create-Logical token with fewer
\* fields than the least fails with TooFewFields and one with more than the
\* greatest with TooManyFields, whatever its fields hold and whether or not
\* its disk exists, and leaves the topology as it was.
C5_FieldCountFirst ==
    [][\A option \in DOMAIN MinFields :
           At(option) =>
               LET n == Len(Split(Token, ":"))
               IN  /\ n < MinFields[option] =>
                       err' = "TooFewFields" /\ disks' = disks /\ vgs' = vgs
                   /\ n > MaxFields[option] =>
                       err' = "TooManyFields" /\ disks' = disks /\ vgs' = vgs]_vars

\* a Create token of eight fields that names no disk of the run has failed
C5_Witness ==
    /\ pc = "failed"
    /\ err = "TooManyFields"
    /\ applied[Len(applied)][1] = "new"
    /\ Len(Split(args.new[applied[Len(applied)][2]], ":")) = 8

\* the partition numbers that the fields after the first of a token name
ListedIds(fields) ==
    {AsI32(ParseU32(fields[k]).some) :
         k \in {j \in 2..Len(fields) : IsSome(ParseU32(fields[j]))}}

\* C10: a Delete token whose disk is not in the topology fails with
\* DiskNotFound, however many partition ids follow the disk; a Delete token
\* that succeeds marks exactly the partitions listed, on that disk.
C10_DeleteLocatesDisk ==
    [][At("delete") =>
           LET fields == Split(Token, ":")
               d      == FindDisk(disks, fields[1])
           IN  /\ d = 0 => err' = "DiskNotFound"
               /\ (d # 0 /\ err' = "") =>
                      /\ vgs' = vgs
                      /\ disks' = [e \in 1..Len(disks) |->
                             IF e # d THEN disks[e]
                             ELSE [disks[e] EXCEPT !.partitions =
                                      [i \in 1..Len(@) |->
                                          IF @[i].number \in ListedIds(fields)
                                          THEN Remove(@[i]) ELSE @[i]]]]]_vars

\* the partitions lie one after the other, none sharing a sector with another
Ascending(parts) ==
    /\ \A i \in 1..Len(parts) : parts[i].start_sector <= parts[i].end_sector
    /\ \A i, j \in 1..Len(parts) : i < j => parts[i].end_sector < parts[j].start_sector

\* C11: a Create-Logical token with a non-negative size that succeeds appends
\* one logical volume to its group and leaves the other groups alone; the
\* volume starts at sector 0 in a group without volumes and else one past the
\* end of the group's last volume, and ends at its start plus the normalized
\* size; the volumes of every group are in strictly increasing sector order
\* and no two of them overlap.
C11_LogicalVolumesAppend ==
    /\ [](\A g \in 1..Len(vgs) : Ascending(vgs[g].partitions))
    /\ [][(At("logical") /\ err' = "" /\ ~StartsWith(Split(Token, ":")[3], "-")) =>
             LET f     == Split(Token, ":")
                 g     == FindLogicalDisk(vgs, f[1])
                 old   == vgs[g].partitions
                 new   == vgs'[g].partitions
                 start == IF old = <<>> THEN 0 ELSE old[Len(old)].end_sector + 1
                 size  == GetSector(vgs[g], parse_sector(f[3], overflow_checks).val)
             IN  /\ Len(vgs') = Len(vgs)
                 /\ \A h \in 1..Len(vgs) : h # g => vgs'[h] = vgs[h]
                 /\ Len(new) = Len(old) + 1
                 /\ SubSeq(new, 1, Len(old)) = old
                 /\ new[Len(new)].start_sector = start
                 /\ new[Len(new)].end_sector = start + size]_vars

\* three volumes have been placed, two of them after another one of their
\* group and one in a group of its own
C11_Witness ==
    /\ pc = "done"
    /\ \E g, h \in 1..Len(vgs) :
           /\ Len(vgs[g].partitions) = 2
           /\ vgs[g].partitions[1].start_sector = 0
           /\ vgs[g].partitions[2].start_sector = vgs[g].partitions[1].end_sector + 1
           /\ Len(vgs[h].partitions) = 1

\* the sector of the device that a start or end field stands for
FieldSector(device, field) ==
    GetSector(device, parse_sector(field, overflow_checks).val)

\* a start or end field that is "none" or a sector
SectorField(field) == field = "none" \/ parse_sector(field, overflow_checks).ok

\* a Move token whose fields parse and whose disk is in the topology
MoveReachesDisk(f) ==
    /\ Len(f) = 4
    /\ IsSome(ParseU32(f[2]))
    /\ SectorField(f[3])
    /\ SectorField(f[4])
    /\ FindDisk(disks, f[1]) # 0

\* C12: in a Move token that reaches its disk the start and end fields act
\* independently: with both "none" the token succeeds and the topology is
\* unchanged; after a token that succeeds the partition starts at the
\* sector of the start field, or where it started if that is "none", and
\* ends at the sector of the end field, or keeps its length if that is
\* "none", and nothing else has changed; a move that the disk refuses fails
\* the token before any resize.
C12_MoveFieldsIndependent ==
    [][(At("move") /\ MoveReachesDisk(Split(Token, ":"))) =>
           LET f  == Split(Token, ":")
               d  == FindDisk(disks, f[1])
               id == AsI32(ParseU32(f[2]).some)
               i  == FindPartition(disks[d], id)
               p  == disks[d].partitions[i]
               q  == disks'[d].partitions[i]
           IN  /\ (f[3] = "none" /\ f[4] = "none") =>
                      err' = "" /\ disks' = disks /\ vgs' = vgs
               /\ (err' = "" /\ i # 0) =>
                      /\ q.start_sector = IF f[3] = "none" THEN p.start_sector
                                          ELSE FieldSector(disks[d], f[3])
                      /\ q.end_sector = IF f[4] = "none"
                                        THEN q.start_sector + (p.end_sector - p.start_sector)
                                        ELSE FieldSector(disks[d], f[4])
                      /\ disks' = [disks EXCEPT ![d].partitions[i] =
                                      [p EXCEPT !.start_sector = q.start_sector,
                                                !.end_sector = q.end_sector]]
               /\ (/\ f[3] # "none"
                   /\ ~MovePartition(disks[d], id, FieldSector(disks[d], f[3])).ok) =>
                      err' # "" /\ disks' = disks]_vars

\* a Move token with a start and an end has moved and then resized the
\* second partition of sda
C12_Witness ==
    /\ pc = "done"
    /\ args.move = <<"sda:2:20000:25000">>
    /\ disks[1].partitions[2].start_sector = 20000
    /\ disks[1].partitions[2].end_sector = 25000

\* whether the j-th partition id of a Delete token on the disk at index d is
\* non-numeric or names no partition of the disk
BadId(d, ids, j) ==
    \/ ~IsSome(ParseU32(ids[j]))
    \/ FindPartition(disks[d], AsI32(ParseU32(ids[j]).some)) = 0

\* the partition numbers that the first n ids name
FirstIds(ids, n) == {AsI32(ParseU32(ids[j]).some) : j \in 1..n}

\* C14: a Delete token whose k-th partition id is the first that is
\* non-numeric or not found fails with the k-1 partitions named before it
\* marked for removal (and no other); a Move token whose move succeeds and
\* whose resize fails fails with the partition moved, at its old length.
C14_PartialEffectsRemain ==
    [][/\ (At("delete") /\ FindDisk(disks, Split(Token, ":")[1]) # 0) =>
              LET ids == Tail(Split(Token, ":"))
                  d   == FindDisk(disks, Split(Token, ":")[1])
                  bad == {j \in 1..Len(ids) : BadId(d, ids, j)}
                  k   == CHOOSE j \in bad : \A h \in bad : j <= h
              IN  bad # {} =>
                      /\ pc' = "failed"
                      /\ err' = IF IsSome(ParseU32(ids[k])) THEN "PartitionNotFound"
                                ELSE "InvalidNumber"
                      /\ disks' = [disks EXCEPT ![d].partitions =
                                      [i \in 1..Len(@) |->
                                          IF @[i].number \in FirstIds(ids, k - 1)
                                          THEN Remove(@[i]) ELSE @[i]]]
       /\ (/\ At("move")
           /\ MoveReachesDisk(Split(Token, ":"))
           /\ Split(Token, ":")[3] # "none"
           /\ Split(Token, ":")[4] # "none") =>
              LET f     == Split(Token, ":")
                  d     == FindDisk(disks, f[1])
                  id    == AsI32(ParseU32(f[2]).some)
                  i     == FindPartition(disks[d], id)
                  moved == MovePartition(disks[d], id, FieldSector(disks[d], f[3]))
              IN  (/\ moved.ok
                   /\ ~ResizePartition(moved.val, id, FieldSector(moved.val, f[4])).ok) =>
                      /\ pc' = "failed"
                      /\ err' # ""
                      /\ disks'[d].partitions[i].start_sector = FieldSector(disks[d], f[3])
                      /\ disks'[d].partitions[i].end_sector
                             = FieldSector(disks[d], f[3])
                                   + (disks[d].partitions[i].end_sector
                                          - disks[d].partitions[i].start_sector)
                      /\ disks' = [disks EXCEPT ![d] = moved.val]]_vars

\* a Delete token has failed at its third id with the two partitions named
\* before it marked for removal
C14_Witness ==
    /\ pc = "failed"
    /\ err = "InvalidNumber"
    /\ args.delete = <<"sda:2:1:x">>
    /\ disks[1].partitions[1].remove
    /\ disks[1].partitions[2].remove

\* whether the field is a mount=, flags= or keyid= field
Recognized(field) ==
    \/ StartsWith(field, "mount=")
    \/ StartsWith(field, "flags=")
    \/ StartsWith(field, "keyid=")

\* the ways a Reuse token can fail, for the fields of the token
ReuseFailure(f) ==
    \/ Len(f) < 3
    \/ Len(f) > 5
    \/ ~IsSome(ParseU32(f[2]))
    \/ f[3] # "reuse" /\ ~parse_fs(f[3]).ok
    \/ \E i \in 4..Len(f) : ~Recognized(f[i])
    \/ FindDisk(disks, f[1]) = 0
    \/ FindPartition(disks[FindDisk(disks, f[1])], AsI32(ParseU32(f[2]).some)) = 0
    \/ /\ SomeStarts(SubSeq(f, 4, Len(f)), "keyid=")
       /\ ~SomeStarts(SubSeq(f, 4, Len(f)), "mount=")

\* C13: a Reuse token is all-or-nothing: it fails exactly when its field
\* count is off, its partition id is non-numeric, its filesystem is invalid,
\* a suffix field is unrecognized, its disk or partition is not found, or it
\* has a keyid without mount; a token that fails leaves the topology as it
\* was before the token; and a token disk:id:reuse that succeeds changes
\* nothing.
C13_ReuseAllOrNothing ==
    [][At("use") =>
           /\ err' # "" <=> ReuseFailure(Split(Token, ":"))
           /\ err' # "" => pc' = "failed" /\ disks' = disks /\ vgs' = vgs
           /\ (/\ Len(Split(Token, ":")) = 3
               /\ Split(Token, ":")[3] = "reuse"
               /\ err' = "") => disks' = disks /\ vgs' = vgs]_vars

\* a Reuse token with a new filesystem, flags and a key without mount has
\* failed on a partition that is as it was probed
C13_Witness ==
    /\ pc = "failed"
    /\ err = "MountRequiredWithKey"
    /\ args.use = <<"sda:1:ext4:flags=boot:keyid=k">>
    /\ disks = <<SystemDisks.sda>>

\* the value of the last field of that prefix
LastValue(fields, prefix) ==
    From(fields[Last({i \in 1..Len(fields) : StartsWith(fields[i], prefix)})],
         Len(prefix))

\* the partition is as the suffix fields of an accepted token leave it: the
\* key with the mount path, or the mount path alone, and the flags if there
\* are flags, each from the last field of its prefix; `before` is the
\* partition without the suffix fields applied
SuffixApplied(before, after, sfx) ==
    /\ SomeStarts(sfx, "keyid=") =>
           /\ after.key_id = Some([id |-> LastValue(sfx, "keyid="),
                                   target |-> LastValue(sfx, "mount=")])
           /\ after.flags = before.flags
    /\ (~SomeStarts(sfx, "keyid=") /\ SomeStarts(sfx, "mount=")) =>
           after.target = Some(LastValue(sfx, "mount="))
    /\ SomeStarts(sfx, "flags=") =>
           after.flags = parse_flags(LastValue(sfx, "flags="))

\* at most two fields, hence not a mount, a key and flags together
AtMostTwo(sfx) ==
    /\ Len(sfx) <= 2
    /\ ~(/\ SomeStarts(sfx, "mount=")
         /\ SomeStarts(sfx, "keyid=")
         /\ SomeStarts(sfx, "flags="))

\* C15: an accepted Reuse or Create token has at most two suffix fields and
\* so never a mount, a keyid and flags together; one that attaches a key
\* leaves the flags as they were (Reuse) or empty (Create); and of two
\* suffix fields with the same key the later is the one applied.
C15_AtMostTwoSuffixFields ==
    [][/\ (At("use") /\ err' = "") =>
              LET f == Split(Token, ":")
                  d == FindDisk(disks, f[1])
                  i == FindPartition(disks[d], AsI32(ParseU32(f[2]).some))
              IN  /\ AtMostTwo(SubSeq(f, 4, Len(f)))
                  /\ SuffixApplied(disks[d].partitions[i], disks'[d].partitions[i],
                                   SubSeq(f, 4, Len(f)))
       /\ (At("new") /\ err' = "") =>
              LET f == Split(Token, ":")
                  d == FindDisk(disks, f[1])
              IN  /\ AtMostTwo(SubSeq(f, 6, Len(f)))
                  /\ Len(disks'[d].partitions) = Len(disks[d].partitions) + 1
                  /\ SuffixApplied(PartitionBuilder(0, 0, "ext4"),
                                   disks'[d].partitions[Len(disks'[d].partitions)],
                                   SubSeq(f, 6, Len(f)))]_vars

\* a Reuse token with two mount= fields has been applied, the second field
\* giving the mount path
C15_Witness ==
    /\ pc = "done"
    /\ args.use = <<"sda:1:reuse:mount=/a:mount=/b">>
    /\ disks[1].partitions[1].target = Some("/b")

====
